---- MODULE Spec2Model ----
(***************************************************************************)
(* One reconciliation pass of dataio.download.download_dataset_v2.         *)
(* Strings are sequences of one-character strings, so that substring       *)
(* search, endswith, split("-") and slicing are computed as Python does.   *)
(***************************************************************************)
EXTENDS FiniteSets, Integers, Sequences, TLC

\* ------------------------------------------------------------------ bounds
\* Timestamps read from the filesystem and the object store are 0..MaxTime.
MaxTime == 1
\* Longest enumeration of top-level folders the store returns.
MaxPrefixes == 2

Times == 0..MaxTime

\* --------------------------------------------------------- string helpers
\* str.startswith
StartsWith(s, p) == Len(p) <= Len(s) /\ SubSeq(s, 1, Len(p)) = p

\* str.endswith
EndsWith(s, p) == Len(p) <= Len(s) /\ SubSeq(s, Len(s) - Len(p) + 1, Len(s)) = p

\* the Python test  item in s  on strings
Contains(s, item) ==
    \E i \in 1..(Len(s) - Len(item) + 1) : SubSeq(s, i, i + Len(item) - 1) = item

\* s[n:]
SliceFrom(s, n) == SubSeq(s, n + 1, Len(s))

\* s.split("-")[0]
SplitDashFirst(s) ==
    IF \E i \in 1..Len(s) : s[i] = "-"
    THEN LET i == CHOOSE j \in 1..Len(s) :
                      s[j] = "-" /\ \A k \in 1..(j - 1) : s[k] # "-"
         IN  SubSeq(s, 1, i - 1)
    ELSE s

\* os.path.join(a, b) on POSIX
PathJoin(a, b) ==
    IF Len(b) > 0 /\ b[1] = "/" THEN b
    ELSE IF Len(a) = 0 \/ a[Len(a)] = "/" THEN a \o b
    ELSE a \o <<"/">> \o b

\* os.path.dirname(p) on POSIX, for paths without doubled slashes
PathDirname(p) ==
    IF \E i \in 1..Len(p) : p[i] = "/"
    THEN LET i == CHOOSE j \in 1..Len(p) :
                      p[j] = "/" /\ \A k \in (j + 1)..Len(p) : p[k] # "/"
         IN  IF i = 1 THEN <<"/">> ELSE SubSeq(p, 1, i - 1)
    ELSE <<>>

\* the directories os.makedirs(d) makes sure exist: d and its ancestors
RECURSIVE MakedirsSet(_)
MakedirsSet(d) ==
    IF Len(d) = 0 \/ d = <<"/">> THEN {}
    ELSE {d} \cup MakedirsSet(PathDirname(d))

\* ---------------------------------------------------------- the universe
FolderAX  == <<"a", "-", "x", "/">>
FolderABX == <<"a", "-", "b", "-", "x", "/">>
FolderAB  == <<"a", "b", "-", "x", "/">>
Folders == {FolderAX, FolderABX, FolderAB}

DsidA  == <<"a">>
DsidAB == <<"a", "-", "b">>
DsidAb == <<"a", "b">>
DsidQ  == <<"q">>

\* object names below a folder; NamePlaceholder is a folder placeholder key
Name1c   == <<"1", "c">>
Name2c   == <<"2", "c">>
Name12c  == <<"1", "2", "c">>
NameS1   == <<"s", "/", "1">>
NamePlaceholder == <<"s", "/">>
NameZ    == <<"z">>

MetadataName == <<"m", "e", "t", "a", "d", "a", "t", "a", ".", "y", "a", "m", "l">>
DatadictName == <<"d", "a", "t", "a", "d", "i", "c", "t", "i", "o", "n", "a", "r", "y",
                  ".", "y", "a", "m", "l">>

DatadirPlain == <<"d">>
DatadirSlash == <<"d", "/">>

\* a criteria argument: None, a single string, or a list of strings
CNone    == [kind |-> "none", str |-> <<>>, list |-> <<>>]
CStr(s)  == [kind |-> "str",  str |-> s,    list |-> <<>>]
CList(l) == [kind |-> "list", str |-> <<>>, list |-> l]

\* sequences without repetition over a set, of length at most n
RECURSIVE SeqsNoRep(_, _)
SeqsNoRep(S, n) ==
    IF n = 0 THEN {<<>>}
    ELSE LET shorter == SeqsNoRep(S, n - 1)
         IN  shorter \cup
             UNION {{Append(q, x) : x \in S \ {q[i] : i \in 1..Len(q)}} :
                    q \in {r \in shorter : Len(r) = n - 1}}

\* ------------------------------------------------------ the criteria filter
\* isinstance(x, str) => [x]
AsList(c) == IF c.kind = "str" THEN <<c.str>> ELSE c.list

\* the item looked up in the listing as a whole instead of in each key
FilesContainingWholeListing(K, item) ==
    IF \E file \in K : Contains(file, item) THEN K ELSE {}

\* [file for file in files_found if item in file]
FilesContaining(K, item) == {file \in K : Contains(file, item)}

\* [file for file in files_found if file.endswith(suffix)]
FilesEndingWith(K, suffix) == {file \in K : EndsWith(file, suffix)}

\* the contains_any loop from item i on; firstLoop is never reassigned in it
RECURSIVE ContainsAnyLoop(_, _, _, _, _)
ContainsAnyLoop(K, items, i, files_containing_any, firstLoop) ==
    IF i > Len(items)
    THEN [files |-> files_containing_any, raised |-> FALSE]
    ELSE LET files_containing_this_item == FilesContaining(K, items[i])
         IN  IF firstLoop
             THEN ContainsAnyLoop(K, items, i + 1, files_containing_this_item, firstLoop)
             ELSE IF files_containing_any \cap files_containing_this_item = {}
                  THEN ContainsAnyLoop(K, items, i + 1,
                           files_containing_any \cup files_containing_this_item,
                           firstLoop)
                  ELSE [files |-> files_containing_any \cap files_containing_this_item,
                        raised |-> TRUE]

\* files_containing_any, and whether the ValueError of the loop was raised
FilesContainingAny(K, contains_any) ==
    IF contains_any.kind # "none"
    THEN ContainsAnyLoop(K, AsList(contains_any), 1, {}, TRUE)
    ELSE [files |-> K, raised |-> FALSE]

\* the contains_all loop from item i on
RECURSIVE ContainsAllLoop(_, _, _, _, _)
ContainsAllLoop(K, items, i, files_containing_all, firstLoop) ==
    IF i > Len(items)
    THEN files_containing_all
    ELSE LET files_containing_this_item == FilesContaining(K, items[i])
         IN  IF firstLoop
             THEN ContainsAllLoop(K, items, i + 1, files_containing_this_item, FALSE)
             ELSE ContainsAllLoop(K, items, i + 1,
                      files_containing_all \cap files_containing_this_item, firstLoop)

FilesContainingAll(K, contains_all) ==
    IF contains_all.kind # "none"
    THEN ContainsAllLoop(K, AsList(contains_all), 1, {}, TRUE)
    ELSE K

\* the suffixes loop from suffix i on
RECURSIVE SuffixLoop(_, _, _, _, _)
SuffixLoop(K, items, i, files_with_suffixes, first_loop) ==
    IF i > Len(items)
    THEN files_with_suffixes
    ELSE LET files_with_this_suffix == FilesEndingWith(K, items[i])
         IN  IF first_loop
             THEN SuffixLoop(K, items, i + 1, files_with_this_suffix, FALSE)
             ELSE SuffixLoop(K, items, i + 1,
                      files_with_suffixes \cap files_with_this_suffix, first_loop)

FilesWithSuffixes(K, suffixes) ==
    IF suffixes.kind # "none"
    THEN SuffixLoop(K, AsList(suffixes), 1, {}, TRUE)
    ELSE K

\* the filter without its check for an empty intersection
FilterFilesNoEmptyCheck(K, contains_all, contains_any, suffixes) ==
    LET any == FilesContainingAny(K, contains_any)
    IN  IF any.raised THEN [files |-> {}, error |-> "AmbiguousSelection"]
        ELSE [files |-> any.files \cap FilesContainingAll(K, contains_all)
                                  \cap FilesWithSuffixes(K, suffixes),
              error |-> "none"]

\* files_to_download, and the error the filter raises ("none" if it returns)
FilterFiles(K, contains_all, contains_any, suffixes) ==
    LET any == FilesContainingAny(K, contains_any)
        files == any.files \cap FilesContainingAll(K, contains_all)
                           \cap FilesWithSuffixes(K, suffixes)
    IN  IF any.raised THEN [files |-> {}, error |-> "AmbiguousSelection"]
        ELSE IF files = {} THEN [files |-> files, error |-> "NoFilesMatched"]
        ELSE [files |-> files, error |-> "none"]

\* ------------------------------------------------------- dataset resolution
NoneValue == <<"None">>

\* dsid_names after the first n folders of the enumeration: a later folder
\* with the same leading segment replaces an earlier one
RECURSIVE DsidNames(_, _)
DsidNames(folders, n) ==
    IF n = 0 THEN <<>>
    ELSE LET before == DsidNames(folders, n - 1)
             key == SplitDashFirst(folders[n])
         IN  [k \in (DOMAIN before) \cup {key} |->
                 IF k = key THEN folders[n] ELSE before[k]]

\* dsid_names.get(dsid)
LookupDsidName(folders, id) ==
    LET dsid_names == DsidNames(folders, Len(folders))
    IN  IF id \in DOMAIN dsid_names THEN dsid_names[id] ELSE NoneValue

\* ---------------------------------------------------------------- the state
VARIABLES
    dsid, prefixes, objects,            \* the identifier and the bucket
    contains_all, contains_any, suffixes,
    datadir, update, clean, fetch_docs,
    platform_system,
    pc, error,
    dsid_name, files_found, files_to_download,
    remaining,                          \* keys the download loop has not reached
    localFiles, localDirs,              \* the local filesystem
    localFiles0, localDirs0,            \* the filesystem when the pass began
    decision, calls,                    \* per selected key: branch taken, download_file calls
    lastKey, lastExists, lastL, lastC, lastR,
    head_calls, warnings_emitted, removed, docs_written,
    warnings_action,                    \* the action of the interpreter's warnings filter
    warning_registry                    \* the warning of line 366 was shown before

inputs == <<dsid, prefixes, objects, contains_all, contains_any, suffixes,
            datadir, update, clean, fetch_docs, platform_system,
            localFiles0, localDirs0, warnings_action>>
listing == <<dsid_name, files_found, files_to_download>>
loopvars == <<remaining, decision, calls, lastKey, lastExists, lastL, lastC, lastR,
              head_calls, warnings_emitted, warning_registry>>
fsvars == <<localFiles, localDirs, removed, docs_written>>
vars == <<inputs, listing, loopvars, fsvars, pc, error>>

\* every key of the bucket: each folder holds the same object names
BucketKeys == {prefixes[i] \o n : i \in 1..Len(prefixes), n \in objects}

\* the directories that must exist for a set of files to exist
DirsOf(files) == UNION {MakedirsSet(PathDirname(f)) : f \in files}

\* the state once settings are read and the S3 client is built
InitWith(id, folders, names, call, cany, suf, dir, upd, cln, docs, plat, files) ==
    /\ dsid = id /\ prefixes = folders /\ objects = names
    /\ contains_all = call /\ contains_any = cany /\ suffixes = suf
    /\ datadir = dir /\ update = upd /\ clean = cln /\ fetch_docs = docs
    /\ platform_system = plat
    /\ localFiles = files /\ localDirs = DirsOf(files)
    /\ localFiles0 = files /\ localDirs0 = DirsOf(files)
    /\ pc = "resolve" /\ error = "none"
    /\ dsid_name = NoneValue /\ files_found = {} /\ files_to_download = {}
    /\ remaining = {}
    /\ decision = <<>> /\ calls = <<>>
    /\ lastKey = NoneValue /\ lastExists = FALSE
    /\ lastL = 0 /\ lastC = 0 /\ lastR = 0
    /\ head_calls = 0 /\ warnings_emitted = 0
    /\ warning_registry = FALSE
    /\ removed = {} /\ docs_written = {}

\* ------------------------------------------------------------- the actions
\* lines 267-276: enumerate the top-level folders and look the dataset up
ResolveDataset ==
    /\ pc = "resolve"
    /\ dsid_name' = LookupDsidName(prefixes, dsid)
    /\ IF dsid_name' = NoneValue
       THEN pc' = "failed" /\ error' = "DatasetNotFound"
       ELSE pc' = "list" /\ error' = error
    /\ UNCHANGED <<inputs, files_found, files_to_download, loopvars, fsvars>>

\* lines 278-284: every key under the prefix, folder placeholders left out
ListedKeys(keys, prefix) ==
    {k \in keys : StartsWith(k, prefix) /\ ~EndsWith(k, <<"/">>)}

ListKeys ==
    /\ pc = "list"
    /\ files_found' = ListedKeys(BucketKeys, dsid_name)
    /\ pc' = "filter"
    /\ UNCHANGED <<inputs, dsid_name, files_to_download, loopvars, fsvars, error>>

\* lines 286-358: the three criteria and their intersection
Filter ==
    /\ pc = "filter"
    /\ LET r == FilterFiles(files_found, contains_all, contains_any, suffixes)
       IN  IF r.error # "none"
           THEN /\ pc' = "failed" /\ error' = r.error
                /\ UNCHANGED <<files_to_download, remaining, decision, calls>>
           ELSE /\ files_to_download' = r.files
                /\ remaining' = r.files
                /\ decision' = [k \in r.files |-> "none"]
                /\ calls' = [k \in r.files |-> 0]
                /\ pc' = IF r.files = {} THEN "prune" ELSE "loop"
                /\ error' = error
    /\ UNCHANGED <<inputs, dsid_name, files_found, fsvars, lastKey, lastExists,
                   lastL, lastC, lastR, head_calls, warnings_emitted,
                   warning_registry>>

\* the remote time compared with the local modification time
SyncDecisionAgainstMtime(upd, exists, L, C, R) ==
    IF upd /\ exists
    THEN IF L > C THEN "OverwriteByReupload"
         ELSE IF R > L THEN "OverwriteFromRemote"
         ELSE "Skip"
    ELSE "Fetch"

\* a remote copy as old as the local one counted as newer
SyncDecisionNotOlder(upd, exists, L, C, R) ==
    IF upd /\ exists
    THEN IF L > C THEN "OverwriteByReupload"
         ELSE IF R >= C THEN "OverwriteFromRemote"
         ELSE "Skip"
    ELSE "Fetch"

\* lines 371-402: the branch one loop iteration takes
SyncDecision(upd, exists, L, C, R) ==
    IF upd /\ exists
    THEN IF L > C THEN "OverwriteByReupload"
         ELSE IF R > C THEN "OverwriteFromRemote"
         ELSE "Skip"
    ELSE "Fetch"

\* lines 365-368: the warning of one loop iteration
WarnsThisIteration(plat, upd) == IF plat # "Windows" /\ upd THEN 1 ELSE 0

\* warnings.warn under the filter action: "always" shows every warning,
\* "default" shows a warning once for its text and line
WarningShown(action, registry) == action = "always" \/ ~registry

\* the registry after warnings.warn: only "default" records the warning
RegistryAfterWarn(action, registry) == registry \/ action = "default"

\* the iteration ended without an exception
KeyDone(file_path) ==
    /\ remaining' = remaining \ {file_path}
    /\ pc' = IF remaining' = {} THEN "prune" ELSE "loop"
    /\ error' = error

\* the exception caught and the loop carried on
KeyRaisedContinue(file_path, what) ==
    /\ remaining' = remaining \ {file_path}
    /\ pc' = IF remaining' = {} THEN "prune" ELSE "loop"
    /\ error' = what

\* an exception left the loop
KeyRaised(file_path, what) ==
    /\ remaining' = remaining \ {file_path}
    /\ pc' = "failed"
    /\ error' = what

\* client.download_file(Key=file_path, Filename=destination_path): it creates
\* or replaces the file, or raises and leaves the destination as it was
DownloadFile(file_path, destination_path) ==
    /\ calls' = [calls EXCEPT ![file_path] = @ + 1]
    /\ \E ok \in BOOLEAN :
          IF ok
          THEN /\ localFiles' = localFiles \cup {destination_path}
               /\ KeyDone(file_path)
          ELSE /\ localFiles' = localFiles
               /\ KeyRaised(file_path, "TransferError")

\* lines 361-404: one iteration of the download loop
ProcessKey ==
    /\ pc = "loop"
    /\ \E file_path \in remaining :
          LET destination_path == PathJoin(datadir, file_path)
              exists == destination_path \in localFiles \cup localDirs
              directory == PathDirname(destination_path)
          IN  /\ IF WarnsThisIteration(platform_system, update) = 1
                 THEN /\ warnings_emitted' = warnings_emitted +
                            (IF WarningShown(warnings_action, warning_registry)
                             THEN 1 ELSE 0)
                      /\ warning_registry' =
                            RegistryAfterWarn(warnings_action, warning_registry)
                 ELSE UNCHANGED <<warnings_emitted, warning_registry>>
              /\ lastKey' = file_path
              /\ lastExists' = exists
              /\ IF update /\ exists
                 THEN \E L \in Times, C \in Times, head_ok \in BOOLEAN :
                        /\ lastL' = L /\ lastC' = C
                        /\ head_calls' = head_calls + 1
                        /\ localDirs' = localDirs
                        /\ IF ~head_ok
                           THEN /\ lastR' = 0
                                /\ UNCHANGED <<decision, calls, localFiles>>
                                /\ KeyRaised(file_path, "HeadError")
                           ELSE \E R \in Times :
                                  LET d == SyncDecision(update, exists, L, C, R)
                                  IN  /\ lastR' = R
                                      /\ decision' = [decision EXCEPT ![file_path] = d]
                                      /\ IF d = "Skip"
                                         THEN /\ UNCHANGED <<calls, localFiles>>
                                              /\ KeyDone(file_path)
                                         ELSE DownloadFile(file_path, destination_path)
                 ELSE /\ lastL' = 0 /\ lastC' = 0 /\ lastR' = 0
                      /\ head_calls' = head_calls
                      /\ decision' = [decision EXCEPT ![file_path] =
                                         SyncDecision(update, exists, 0, 0, 0)]
                      /\ localDirs' = IF directory \in localDirs
                                      THEN localDirs
                                      ELSE localDirs \cup MakedirsSet(directory)
                      /\ DownloadFile(file_path, destination_path)
    /\ UNCHANGED <<inputs, listing, removed, docs_written>>

\* line 408-410: the protected names, joined to the prefix
ExceptionFnames(prefix) ==
    {PathJoin(prefix, DatadictName), PathJoin(prefix, MetadataName)}

\* line 412
DatadirPrefixLength(dir) == Len(dir) + 1

\* lines 413-415: the files os.walk finds below top
WalkFiles(files, top) == {f \in files : StartsWith(f, top)}

\* lines 413-420: the files the walk removes
FilesToRemove(files, dir, prefix, found) ==
    {file_path \in WalkFiles(files, PathJoin(dir, prefix)) :
        LET file_path_relative == SliceFrom(file_path, DatadirPrefixLength(dir))
        IN  /\ file_path_relative \notin found
            /\ file_path_relative \notin ExceptionFnames(prefix)}

\* lines 406-420: prune the folder
Prune ==
    /\ pc = "prune"
    /\ IF clean
       THEN LET gone == FilesToRemove(localFiles, datadir, dsid_name, files_found)
            IN  /\ localFiles' = localFiles \ gone
                /\ removed' = removed \cup gone
       ELSE UNCHANGED <<localFiles, removed>>
    /\ pc' = "docs"
    /\ UNCHANGED <<inputs, listing, loopvars, localDirs, docs_written, error>>

\* lines 427, 436: where the two documents are written
DocPaths(dir, prefix) ==
    {PathJoin(PathJoin(dir, prefix), MetadataName),
     PathJoin(PathJoin(dir, prefix), DatadictName)}

\* lines 422-443: fetch the documentation and write it
FetchDocs ==
    /\ pc = "docs"
    /\ IF fetch_docs
       THEN \E fetched \in BOOLEAN :
               IF fetched
               THEN /\ localDirs' = localDirs \cup
                          UNION {MakedirsSet(PathDirname(f)) :
                                 f \in DocPaths(datadir, dsid_name)}
                    /\ localFiles' = localFiles \cup DocPaths(datadir, dsid_name)
                    /\ docs_written' = DocPaths(datadir, dsid_name)
                    /\ pc' = "done" /\ error' = error
               ELSE /\ UNCHANGED <<localFiles, localDirs, docs_written>>
                    /\ pc' = "failed" /\ error' = "DocsNotFound"
       ELSE /\ UNCHANGED <<localFiles, localDirs, docs_written>>
            /\ pc' = "done" /\ error' = error
    /\ UNCHANGED <<inputs, listing, loopvars, removed>>

Next ==
    \/ ResolveDataset
    \/ ListKeys
    \/ Filter
    \/ ProcessKey
    \/ Prune
    \/ FetchDocs

\* ------------------------------------------------------ the specifications
\* where a key of FolderAX lands below the local root "d"
LocalUnder(names) == {PathJoin(DatadirPlain, FolderAX \o n) : n \in names}

\* one pass over a small dataset: any local tree, any flags, with or
\* without a suffix criterion
Init ==
    \E names \in (SUBSET {Name1c, Name2c, NameS1, NamePlaceholder}) \ {{}},
       suf \in {CNone, CStr(<<"c">>)},
       dir \in {DatadirPlain, DatadirSlash},
       upd \in BOOLEAN, cln \in BOOLEAN, docs \in BOOLEAN,
       files \in SUBSET LocalUnder({Name1c, NameS1, NameZ, MetadataName}) :
         /\ InitWith(DsidA, <<FolderAX>>, names, CNone, CNone, suf, dir,
                     upd, cln, docs, "Linux", files)
         /\ warnings_action = "default"

Spec == Init /\ [][Next]_vars

\* the criteria filter over every key set and many criteria; empty local root
AnyChoices == {CNone, CList(<<>>), CStr(<<"1">>), CList(<<<<"1">>, <<"2">>>>),
               CList(<<<<"2">>, <<"1">>>>)}
AllChoices == {CNone, CList(<<>>), CStr(<<"c">>), CList(<<<<"c">>>>),
               CList(<<<<"1">>, <<"c">>>>)}
SuffixChoices == {CNone, CList(<<>>), CStr(<<"c">>), CList(<<<<"c">>, <<"2", "c">>>>)}

InitFilter ==
    \E names \in (SUBSET {Name1c, Name2c, Name12c, NameS1, NamePlaceholder}) \ {{}},
       call \in AllChoices, cany \in AnyChoices, suf \in SuffixChoices :
         /\ InitWith(DsidA, <<FolderAX>>, names, call, cany, suf, DatadirPlain,
                     TRUE, TRUE, TRUE, "Linux", {})
         /\ warnings_action = "default"

SpecFilter == InitFilter /\ [][Next]_vars

\* dataset resolution over every identifier and every enumeration of folders
InitResolve ==
    \E id \in {DsidA, DsidAB, DsidAb, DsidQ},
       folders \in SeqsNoRep(Folders, MaxPrefixes) \ {<<>>},
       cln \in BOOLEAN :
         /\ InitWith(id, folders, {Name1c}, CNone, CNone, CNone, DatadirPlain,
                     TRUE, cln, TRUE, "Linux", {})
         /\ warnings_action = "default"

SpecResolve == InitResolve /\ [][Next]_vars

\* the warning of the download loop: both platforms, update on and off, one
\* to three selected keys, in a fresh interpreter under either filter action
InitWarn ==
    \E names \in (SUBSET {Name1c, Name2c, NameS1}) \ {{}},
       plat \in {"Linux", "Windows"},
       action \in {"default", "always"},
       upd \in BOOLEAN, cln \in BOOLEAN,
       files \in SUBSET LocalUnder({Name1c}) :
         /\ InitWith(DsidA, <<FolderAX>>, names, CNone, CNone, CNone,
                     DatadirPlain, upd, cln, TRUE, plat, files)
         /\ warnings_action = action

SpecWarn == InitWarn /\ [][Next]_vars

\* ------------------------------------------------------------- the claims
\* the filter has run and returned or raised
Filtered == pc \in {"loop", "prune", "docs", "done"}
            \/ (pc = "failed" /\ error # "DatasetNotFound")

\* the local path of a key
LocalPath(k) == PathJoin(datadir, k)

\* C1: after a completed pass with clean=True every file left under
\* <datadir>/<prefix> is the local copy of a selected key or a protected file.
C1_PruneKeepsOnlySelected ==
    (pc = "done" /\ clean) =>
        \A f \in WalkFiles(localFiles, PathJoin(datadir, dsid_name)) :
            \/ \E k \in files_to_download : f = LocalPath(k)
            \/ f \in DocPaths(datadir, dsid_name)

\* the union, over the items of a contains_any list, of the keys with the item
AnyUnion(K, items) == UNION {FilesContaining(K, items[i]) : i \in 1..Len(items)}

\* the keys that contain two different items of a contains_any list
AmbiguousKeys(K, items) ==
    {k \in K : \E i \in 1..Len(items), j \in 1..Len(items) :
                  /\ items[i] # items[j]
                  /\ Contains(k, items[i]) /\ Contains(k, items[j])}

\* C2: with several contains_any items and no key containing two of them, the
\* selection is (union of the per-item subsets) /\ contains-all /\ suffix.
C2_AnyIsUnion ==
    (/\ Filtered
     /\ contains_any.kind = "list" /\ Len(contains_any.list) >= 2
     /\ AmbiguousKeys(files_found, contains_any.list) = {})
    => files_to_download =
          AnyUnion(files_found, contains_any.list)
            \cap FilesContainingAll(files_found, contains_all)
            \cap FilesWithSuffixes(files_found, suffixes)

\* C3: a listed key containing two different contains_any items makes the
\* filter raise the ambiguous-selection error; nothing is downloaded or deleted.
C3_AmbiguityRaises ==
    (/\ Filtered
     /\ contains_any.kind = "list"
     /\ AmbiguousKeys(files_found, contains_any.list) # {})
    => /\ error = "AmbiguousSelection"
       /\ \A k \in DOMAIN calls : calls[k] = 0
       /\ removed = {}

\* C4: an empty intersection raises no-files-matched and the pass changes
\* nothing: no download, no directory, no deletion, no documentation.
C4_NoMatchNoMutation ==
    /\ (/\ Filtered
        /\ FilesContainingAny(files_found, contains_any).files
             \cap FilesContainingAll(files_found, contains_all)
             \cap FilesWithSuffixes(files_found, suffixes) = {})
       => (pc = "failed" /\ error = "NoFilesMatched")
    /\ error = "NoFilesMatched" =>
          /\ pc = "failed" /\ ~ENABLED Next
          /\ localFiles = localFiles0 /\ localDirs = localDirs0
          /\ DOMAIN calls = {} /\ head_calls = 0
          /\ removed = {} /\ docs_written = {}

C4_Witness ==
    /\ error = "NoFilesMatched" /\ files_found # {}
    /\ update /\ clean /\ fetch_docs
    /\ localFiles0 # {}

\* the decision table of the claim
DecisionTable(upd, exists, LgtC, RgtC) ==
    IF ~upd \/ ~exists THEN "Fetch"
    ELSE IF LgtC THEN "OverwriteByReupload"
    ELSE IF RgtC THEN "OverwriteFromRemote"
    ELSE "Skip"

\* C5: each selected key gets one decision, the table's value for (update,
\* exists, L>C, R>C); one download call unless the decision is Skip.
C5_DecisionIsTable ==
    /\ DOMAIN decision = DOMAIN calls
    /\ Filtered /\ error # "NoFilesMatched" /\ error # "AmbiguousSelection"
          => DOMAIN decision = files_to_download
    /\ \A k \in DOMAIN decision :
          /\ calls[k] = IF decision[k] \in {"none", "Skip"} THEN 0 ELSE 1
          /\ (k \notin remaining /\ ~(k = lastKey /\ error = "HeadError"))
                => decision[k] \in {"Fetch", "OverwriteByReupload",
                                    "OverwriteFromRemote", "Skip"}
          /\ k \in remaining => decision[k] = "none"
    /\ (lastKey # NoneValue /\ error # "HeadError") =>
          decision[lastKey] =
              DecisionTable(update, lastExists, lastL > lastC, lastR > lastC)

C5_Witness ==
    /\ pc = "done" /\ update
    /\ \E k \in files_to_download : decision[k] = "Skip"
    /\ \E k \in files_to_download : decision[k] = "Fetch"
    /\ decision[lastKey] \in {"OverwriteByReupload", "OverwriteFromRemote"}

\* C6: with the three criteria given as empty lists the selection is the whole
\* key set, and a contains_all of one item selects a subset of it.
C6_EmptyCriteriaMatchAll ==
    (/\ Filtered
     /\ contains_all = CList(<<>>) /\ contains_any = CList(<<>>)
     /\ suffixes = CList(<<>>))
    => /\ files_to_download = files_found
       /\ \A a \in {<<"1">>, <<"c">>} :
             FilterFiles(files_found, CList(<<a>>), contains_any, suffixes).files
                \subseteq files_to_download

\* C7: filtering a returned selection again with the same criteria returns it.
C7_FilterIdempotent ==
    (Filtered /\ error \notin {"NoFilesMatched", "AmbiguousSelection"}) =>
        FilterFiles(files_to_download, contains_all, contains_any, suffixes)
            = [files |-> files_to_download, error |-> "none"]

C7_Witness ==
    /\ pc = "loop"
    /\ files_to_download # {} /\ files_to_download # files_found
    /\ contains_any.kind = "list" /\ Len(contains_any.list) >= 2
    /\ contains_all.kind # "none" /\ suffixes.kind # "none"

\* C8: a failed download ends the pass: no later key is downloaded, nothing
\* is pruned, no document is written, and earlier downloads stay in place.
C8_FailFast ==
    error = "TransferError" =>
        /\ pc = "failed" /\ ~ENABLED Next
        /\ \A k \in remaining : calls[k] = 0 /\ decision[k] = "none"
        /\ calls[lastKey] = 1
        /\ removed = {} /\ docs_written = {}
        /\ localFiles0 \subseteq localFiles
        /\ \A k \in files_to_download :
              (calls[k] = 1 /\ k # lastKey) => LocalPath(k) \in localFiles

C8_Witness ==
    /\ error = "TransferError" /\ clean /\ fetch_docs
    /\ remaining # {}
    /\ \E k \in files_to_download :
          /\ k # lastKey /\ calls[k] = 1
          /\ LocalPath(k) \in localFiles \ localFiles0
    /\ FilesToRemove(localFiles, datadir, dsid_name, files_found) # {}

\* C9: the pass resolves to a folder that begins with <dsid>- whenever the
\* bucket has one, and raises dataset-not-found exactly when it has none.
C9_ResolvesByLeadingId ==
    pc # "resolve" =>
        LET matching == {i \in 1..Len(prefixes) :
                            StartsWith(prefixes[i], dsid \o <<"-">>)}
        IN  /\ (error = "DatasetNotFound") <=> (matching = {})
            /\ matching # {} => StartsWith(dsid_name, dsid \o <<"-">>)

\* C10 as stated: update on, local copy present, R <= C: Skip, no transfer.
C10_SkipWhenRemoteNotNewer ==
    (/\ update /\ lastKey # NoneValue /\ lastExists
     /\ error # "HeadError"
     /\ lastR <= lastC)
    => decision[lastKey] = "Skip" /\ calls[lastKey] = 0

\* C10 amended: update on, local copy present, L <= C and R <= C: Skip, no
\* transfer call.
C10_SkipWhenUntouchedAndRemoteNotNewer ==
    (/\ update /\ lastKey # NoneValue /\ lastExists
     /\ error # "HeadError"
     /\ lastL <= lastC /\ lastR <= lastC)
    => decision[lastKey] = "Skip" /\ calls[lastKey] = 0

C10_Witness ==
    /\ update /\ lastKey # NoneValue /\ lastExists
    /\ error = "none"
    /\ lastL <= lastC /\ lastR = lastC /\ lastR > 0
    /\ decision[lastKey] = "Skip" /\ calls[lastKey] = 0
    /\ LocalPath(lastKey) \in localFiles0

\* C11: with clean=True a metadata.yaml or datadictionary.yaml that lay
\* directly under <datadir>/<prefix> when the pass began is never removed.
C11_ProtectedFilesSurvive ==
    (clean /\ dsid_name # NoneValue) =>
        \A f \in DocPaths(datadir, dsid_name) \cap localFiles0 :
            f \in localFiles /\ f \notin removed

\* C12: off Windows, once the download loop is over the warning has been
\* emitted exactly once if update is on, whatever the number of selected
\* keys, and not at all if update is off.
C12_WarnsOncePerPass ==
    (pc \in {"prune", "docs", "done"} /\ platform_system # "Windows") =>
        warnings_emitted = IF update THEN 1 ELSE 0

====
